---------------------------- MODULE Spec2Model ----------------------------
(***************************************************************************)
(* The research stream processor of src/app/(chat)/api/research/route.ts:  *)
(* POST.execute -> streamFromLangGraph -> processLangGraphEvent ->         *)
(* processResearchEvent / processV5DataPart, with the session state        *)
(* (researchState) and the sink (writer) as the state of the machine.      *)
(*                                                                         *)
(* Representation of JavaScript values:                                    *)
(*   - an object is a function whose domain is the set of the fields it    *)
(*     has; a field that is absent reads as undefined (Str, NumOr, TruthyStr); *)
(*   - a parsed JSON value is tagged with its runtime type (JArr, JObj,    *)
(*     JStr, JNull), because the code dispatches on Array.isArray/typeof;  *)
(*   - a string the code takes apart (a line of the stream, a raw token,   *)
(*     an event type) is a sequence of tokens; a string it only copies or  *)
(*     compares is an atomic string;                                       *)
(*   - timestamps (new Date().toISOString()) are left out of the messages  *)
(*     and events: no decision of the code reads them;                     *)
(*   - of the clock, only whether the 5 minutes of the abort timer have    *)
(*     passed since it was armed (overdue), and whether 30 seconds have    *)
(*     passed since lastActivityTime (stalled); the console is the number  *)
(*     of warnings of the stall check (warnings).                          *)
(***************************************************************************)
EXTENDS Integers, Sequences, FiniteSets, TLC

VARIABLES state, writer, buffer, pc, input, feed, overdue, stalled, warnings

vars == <<state, writer, buffer, pc, input, feed, overdue, stalled, warnings>>

---------------------------------------------------------------------------
(* JavaScript values *)

\* The value undefined, where a string is expected.
UNDEF == "<undefined>"

\* o.f for a string-valued field: undefined when o has no field f.
Str(o, f) == IF f \in DOMAIN o THEN o[f] ELSE UNDEF

\* Truthiness of a string-valued read: undefined and "" are falsy.
TruthyStr(s) == s # UNDEF /\ s # ""

\* Truthiness of o.f for a number-valued field: undefined and 0 are falsy.
TruthyNum(o, f) == f \in DOMAIN o /\ o[f] # 0

\* Truthiness of o.f for a boolean-valued field.
TruthyBool(o, f) == f \in DOMAIN o /\ o[f] = TRUE

\* o.f || dflt for a number-valued field.
NumOr(o, f, dflt) == IF TruthyNum(o, f) THEN o[f] ELSE dflt

\* The object {} and the empty Map.
EmptyObj == [k \in {} |-> UNDEF]

\* The element null of an array (item.type throws a TypeError on it).
NullItem == [null |-> TRUE]

\* Variant of MapSet that forgets the other keys.
MapSetAlone(m, k, v) == [x \in {k} |-> v]

\* Map.set(k, v)
MapSet(m, k, v) == [x \in (DOMAIN m) \cup {k} |-> IF x = k THEN v ELSE m[x]]

\* Parsed JSON values, tagged with their runtime type.
\* (A pair, tag first: two values of different types differ by their tags.)
JArr(items) == <<"array", items>>
JObj(o) == <<"object", o>>
JStr(s) == <<"string", s>>
JNull == <<"null", "null">>
JNum(n) == <<"number", n>>
TypeOf(value) == value[1]
ValueOf(value) == value[2]

\* Characters of the upstream text and of raw token strings.
Ch(s) == [ch |-> s]
JsonText(v) == [ch |-> "json", v |-> v]
NL == Ch("\n")
SP == Ch(" ")
DataMarker == Ch("data: ")

\* String.prototype.trim on a token sequence.
RECURSIVE TrimLeft(_)
TrimLeft(s) == IF s # <<>> /\ Head(s) = SP THEN TrimLeft(Tail(s)) ELSE s

RECURSIVE TrimRight(_)
TrimRight(s) ==
    IF s # <<>> /\ s[Len(s)] = SP THEN TrimRight(SubSeq(s, 1, Len(s) - 1)) ELSE s

Trim(s) == TrimRight(TrimLeft(s))

\* JSON.parse(text): the value of a text that is one JSON value (surrounding
\* white space allowed); any other text throws a SyntaxError.
JsonValid(text) == Len(Trim(text)) = 1 /\ Trim(text)[1].ch = "json"
JsonParse(text) == Trim(text)[1].v

---------------------------------------------------------------------------
(* The session state and the sink *)

\* A context threads the session state and the sink through the handlers;
\* threw records an exception propagating out of the handler.
Cx(s, w, th) == [state |-> s, writer |-> w, threw |-> th]

Write(cx, part) == [cx EXCEPT !.writer = Append(@, part)]
Throw(cx) == [cx EXCEPT !.threw = TRUE]
SetState(cx, f, v) == [cx EXCEPT !.state[f] = v]

\* A part written to the sink. transient = FALSE stands for "no transient flag".
Part(type, data, transient) == [type |-> type, data |-> data, transient |-> transient]

\* state.analysts.findIndex(a => a.name === name); 0 stands for -1 (indices from 1).
findIndex(analysts, name) ==
    IF \E i \in 1..Len(analysts) : analysts[i].name = name
    THEN CHOOSE i \in 1..Len(analysts) :
            /\ analysts[i].name = name
            /\ \A j \in 1..(i - 1) : analysts[j].name # name
    ELSE 0

\* The Analyst built from an event's data (both handlers build it alike).
AnalystOf(data) ==
    [name |-> Str(data, "name"), role |-> Str(data, "role"),
     affiliation |-> Str(data, "affiliation"), esgFocus |-> Str(data, "esgFocus"),
     esgCategories |-> Str(data, "esgCategories")]

\* Variant of upsertAnalyst that appends without the lookup by name.
upsertAnalystAppends(analysts, analyst) ==
    Append(analysts, analyst)

\* Replace in place when the name exists, else append.
upsertAnalyst(analysts, analyst) ==
    LET existingIndex == findIndex(analysts, analyst.name) IN
    IF existingIndex >= 1
    THEN [analysts EXCEPT ![existingIndex] = analyst]
    ELSE Append(analysts, analyst)

\* Variant of initInterview that starts the transcript anew at every event.
initInterviewResets(interviews, analystName) ==
    MapSet(interviews, analystName, <<>>)

\* if (!state.interviews.has(analystName)) state.interviews.set(analystName, [])
initInterview(interviews, analystName) ==
    IF analystName \in DOMAIN interviews THEN interviews
    ELSE MapSet(interviews, analystName, <<>>)

\* Variant of isNewMessage that takes every message for new.
isNewMessageAlways(messages, messagePreview) ==
    TRUE

\* lastMessage absent or of another content: the message is new.
isNewMessage(messages, messagePreview) ==
    messages = <<>> \/ messages[Len(messages)].content # messagePreview

\* Variant of roleOf that does not look at the status.
roleOfAssistant(metadata, status) ==
    IF TruthyStr(Str(metadata, "role")) THEN metadata["role"] ELSE "assistant"

\* Variant of roleOf that looks at the status only.
roleOfStatus(metadata, status) ==
    IF status = "questioning" THEN "user" ELSE "assistant"

\* role from metadata, else from the status.
roleOf(metadata, status) ==
    IF TruthyStr(Str(metadata, "role")) THEN metadata["role"]
    ELSE IF status = "questioning" THEN "user" ELSE "assistant"

InterviewMessage(analystName, role, content) ==
    [analystName |-> analystName, role |-> role, content |-> content]

---------------------------------------------------------------------------
(* processResearchEvent: one element of a legacy batch *)

\* event.type === kind, for an object that may have no type.
TypeIs(event, type) == "type" \in DOMAIN event /\ event["type"] = type

\* event.data.<field> throws a TypeError when the event has no data.
HasData(event) == "data" \in DOMAIN event

researchAnalyst(event, cx) ==
    IF ~HasData(event) THEN Throw(cx)
    ELSE LET analysts == upsertAnalyst(cx.state.analysts, AnalystOf(event["data"]))
             cx1 == SetState(cx, "analysts", analysts)
         IN  Write(cx1, Part("data-analysts", [analysts |-> analysts], FALSE))

\* Variant of researchProgress that keeps the phase once it is completed.
researchProgressKeepsCompleted(event, cx) ==
    LET progress == [current |-> NumOr(event, "current", cx.state.progress.current),
                     total |-> NumOr(event, "total", cx.state.progress.total),
                     message |-> Str(event, "message")]
        cx1 == SetState(cx, "progress", progress)
        cx2 == IF TruthyStr(Str(event, "phase")) /\ cx.state.phase # "completed"
               THEN SetState(cx1, "phase", event["phase"]) ELSE cx1
    IN  Write(cx2, Part("data-progress",
                        [progress |-> cx2.state.progress, phase |-> cx2.state.phase], TRUE))

\* The legacy handler reads message, phase, current and total off the event itself.
researchProgress(event, cx) ==
    LET progress == [current |-> NumOr(event, "current", cx.state.progress.current),
                     total |-> NumOr(event, "total", cx.state.progress.total),
                     message |-> Str(event, "message")]
        cx1 == SetState(cx, "progress", progress)
        cx2 == IF TruthyStr(Str(event, "phase"))
               THEN SetState(cx1, "phase", event["phase"]) ELSE cx1
    IN  Write(cx2, Part("data-progress",
                        [progress |-> cx2.state.progress, phase |-> cx2.state.phase], TRUE))

researchInterview(event, cx) ==
    IF ~HasData(event) THEN Throw(cx)
    ELSE LET data == event["data"]
             analystName == Str(data, "analystName")
             status == Str(data, "status")
             messagePreview == Str(data, "messagePreview")
             metadata == IF "metadata" \in DOMAIN event THEN event["metadata"] ELSE EmptyObj
             cx1 == Write(cx, Part("data-interview",
                        [analystName |-> analystName, status |-> status,
                         turnNumber |-> Str(data, "turnNumber"),
                         messagePreview |-> messagePreview, metadata |-> metadata], TRUE))
             cx2 == SetState(cx1, "interviews", initInterview(cx1.state.interviews, analystName))
             messages == cx2.state.interviews[analystName]
         IN  IF TruthyStr(messagePreview) /\ TruthyStr(analystName)
                  /\ isNewMessage(messages, messagePreview)
             THEN LET pushed == Append(messages, InterviewMessage(analystName,
                                          roleOf(metadata, status), messagePreview))
                      cx3 == SetState(cx2, "interviews",
                                      MapSet(cx2.state.interviews, analystName, pushed))
                  IN  Write(cx3, Part("data-interviews",
                                      [interviews |-> cx3.state.interviews], FALSE))
             ELSE cx2

\* Variant of researchSearch that appends whatever the status.
researchSearchAnyStatus(event, cx) ==
    IF ~HasData(event) THEN Throw(cx)
    ELSE LET data == event["data"] IN
         IF TruthyNum(data, "resultsCount")
         THEN SetState(cx, "searches", Append(cx.state.searches,
                  [tool |-> Str(data, "tool"), query |-> Str(data, "query"),
                   resultsCount |-> data["resultsCount"], sources |-> <<>>]))
         ELSE cx

researchSearch(event, cx) ==
    IF ~HasData(event) THEN Throw(cx)
    ELSE LET data == event["data"] IN
         IF Str(data, "status") = "completed" /\ TruthyNum(data, "resultsCount")
         THEN SetState(cx, "searches", Append(cx.state.searches,
                  [tool |-> Str(data, "tool"), query |-> Str(data, "query"),
                   resultsCount |-> data["resultsCount"], sources |-> <<>>]))
         ELSE cx

researchSection(event, cx) ==
    IF ~HasData(event) THEN Throw(cx)
    ELSE LET data == event["data"]
             cx1 == SetState(cx, "sections", MapSet(cx.state.sections,
                        Str(data, "analystName"), Str(data, "contentPreview")))
         IN  Write(cx1, Part("data-sections", [sections |-> cx1.state.sections], FALSE))

\* Variant of researchError that also ends the phases.
researchErrorEndsPhase(event, cx) ==
    IF ~HasData(event) THEN Throw(cx)
    ELSE LET data == event["data"]
             error == [message |-> Str(data, "error"), type |-> Str(data, "errorType")]
             cx1 == SetState(SetState(cx, "error", <<error>>), "phase", "completed")
         IN  Write(cx1, Part("data-error", [error |-> error], TRUE))

researchError(event, cx) ==
    IF ~HasData(event) THEN Throw(cx)
    ELSE LET data == event["data"]
             error == [message |-> Str(data, "error"), type |-> Str(data, "errorType")]
             cx1 == SetState(cx, "error", <<error>>)
         IN  Write(cx1, Part("data-error", [error |-> error], TRUE))

\* Variant of processResearchEvent that throws on a type the switch does not list.
processResearchEventStrict(event, cx) ==
    CASE TypeIs(event, <<"analyst">>) -> researchAnalyst(event, cx)
      [] TypeIs(event, <<"progress">>) -> researchProgress(event, cx)
      [] TypeIs(event, <<"interview">>) -> researchInterview(event, cx)
      [] TypeIs(event, <<"search">>) -> researchSearch(event, cx)
      [] TypeIs(event, <<"section">>) -> researchSection(event, cx)
      [] TypeIs(event, <<"error">>) -> researchError(event, cx)
      [] TypeIs(event, <<"metadata">>) -> cx
      [] OTHER -> Throw(cx)

processResearchEvent(event, cx) ==
    CASE TypeIs(event, <<"analyst">>) -> researchAnalyst(event, cx)
      [] TypeIs(event, <<"progress">>) -> researchProgress(event, cx)
      [] TypeIs(event, <<"interview">>) -> researchInterview(event, cx)
      [] TypeIs(event, <<"search">>) -> researchSearch(event, cx)
      [] TypeIs(event, <<"section">>) -> researchSection(event, cx)
      [] TypeIs(event, <<"error">>) -> researchError(event, cx)
      [] OTHER -> cx   \* metadata, and every type the switch does not list

---------------------------------------------------------------------------
(* processV5DataPart: one discrete data-* event *)

\* type.replace('data-', ''): the first occurrence of the prefix token is removed.
RECURSIVE stripDataPrefix(_)
stripDataPrefix(type) ==
    IF type = <<>> THEN <<>>
    ELSE IF Head(type) = "data-" THEN Tail(type)
    ELSE <<Head(type)>> \o stripDataPrefix(Tail(type))

\* The payload as written through (data: data); NoData when the event has none.
NoData == [undefined |-> TRUE]
DataOf(event) == IF HasData(event) THEN event["data"] ELSE NoData

v5Analyst(event, cx) ==
    IF ~HasData(event) THEN Throw(cx)
    ELSE LET analysts == upsertAnalyst(cx.state.analysts, AnalystOf(event["data"]))
             cx1 == SetState(cx, "analysts", analysts)
         IN  IF ~TruthyBool(event, "transient")
             THEN Write(cx1, Part("data-analysts", [analysts |-> analysts], FALSE))
             ELSE cx1

v5Progress(event, cx) ==
    LET cx1 == IF TruthyBool(event, "transient")
               THEN Write(cx, Part("data-progress", DataOf(event), TRUE)) ELSE cx
    IN  IF ~HasData(event) THEN Throw(cx1)
        ELSE LET data == event["data"]
                 progress == [current |-> NumOr(data, "current", cx1.state.progress.current),
                              total |-> NumOr(data, "total", cx1.state.progress.total),
                              message |-> Str(data, "message")]
                 cx2 == SetState(cx1, "progress", progress)
             IN  IF TruthyStr(Str(data, "phase"))
                 THEN SetState(cx2, "phase", data["phase"]) ELSE cx2

v5Interview(event, cx) ==
    IF ~HasData(event) THEN Throw(cx)
    ELSE LET data == event["data"]
             analystName == Str(data, "analystName")
             status == Str(data, "status")
             messagePreview == Str(data, "messagePreview")
             metadata == IF "metadata" \in DOMAIN data THEN data["metadata"] ELSE EmptyObj
             cx1 == SetState(cx, "interviews", initInterview(cx.state.interviews, analystName))
             messages == cx1.state.interviews[analystName]
         IN  IF TruthyStr(messagePreview) /\ isNewMessage(messages, messagePreview)
             THEN LET pushed == Append(messages, InterviewMessage(analystName,
                                          roleOf(metadata, status), messagePreview))
                      cx2 == SetState(cx1, "interviews",
                                      MapSet(cx1.state.interviews, analystName, pushed))
                  IN  Write(cx2, Part("data-interviews",
                                      [interviews |-> cx2.state.interviews], FALSE))
             ELSE cx1

\* Variant of v5Search that forwards every search with the flag it came with.
v5SearchForwardsFlag(event, cx) ==
    Write(cx, Part("data-search", DataOf(event), TruthyBool(event, "transient")))

v5Search(event, cx) ==
    IF TruthyBool(event, "transient")
    THEN Write(cx, Part("data-search", DataOf(event), TRUE)) ELSE cx

v5Section(event, cx) ==
    IF ~HasData(event) THEN Throw(cx)
    ELSE LET data == event["data"]
             cx1 == IF TruthyStr(Str(event, "id"))
                    THEN SetState(cx, "sections", MapSet(cx.state.sections,
                             Str(data, "analystName"), Str(data, "contentPreview")))
                    ELSE cx
         IN  IF ~TruthyBool(event, "transient")
             THEN Write(cx1, Part("data-sections", [sections |-> cx1.state.sections], FALSE))
             ELSE cx1

v5Error(event, cx) ==
    LET cx1 == IF TruthyBool(event, "transient")
               THEN Write(cx, Part("data-error", DataOf(event), TRUE)) ELSE cx
    IN  IF ~HasData(event) THEN Throw(cx1)
        ELSE SetState(cx1, "error", <<[message |-> Str(event["data"], "error"),
                                       type |-> Str(event["data"], "errorType")]>>)

\* Variant of v5Metadata that takes the phase a metadata event declares.
v5MetadataSetsPhase(event, cx) ==
    LET cx1 == IF TruthyBool(event, "transient")
               THEN Write(cx, Part("data-metadata", DataOf(event), TRUE)) ELSE cx
    IN  IF HasData(event) /\ TruthyStr(Str(event["data"], "phase"))
        THEN SetState(cx1, "phase", event["data"]["phase"]) ELSE cx1

v5Metadata(event, cx) ==
    IF TruthyBool(event, "transient")
    THEN Write(cx, Part("data-metadata", DataOf(event), TRUE)) ELSE cx

\* Variant of processV5DataPart that forwards the parts of the kinds it does not
\* know as they are.
processV5DataPartForwardsRest(event, cx) ==
    LET eventType == stripDataPrefix(event["type"]) IN
    CASE eventType = <<"analyst">> -> v5Analyst(event, cx)
      [] eventType = <<"progress">> -> v5Progress(event, cx)
      [] eventType = <<"interview">> -> v5Interview(event, cx)
      [] eventType = <<"search">> -> v5Search(event, cx)
      [] eventType = <<"section">> -> v5Section(event, cx)
      [] eventType = <<"error">> -> v5Error(event, cx)
      [] eventType = <<"metadata">> -> v5Metadata(event, cx)
      [] OTHER -> Write(cx, Part("data-other", DataOf(event), TRUE))

processV5DataPart(event, cx) ==
    LET eventType == stripDataPrefix(event["type"]) IN
    CASE eventType = <<"analyst">> -> v5Analyst(event, cx)
      [] eventType = <<"progress">> -> v5Progress(event, cx)
      [] eventType = <<"interview">> -> v5Interview(event, cx)
      [] eventType = <<"search">> -> v5Search(event, cx)
      [] eventType = <<"section">> -> v5Section(event, cx)
      [] eventType = <<"error">> -> v5Error(event, cx)
      [] eventType = <<"metadata">> -> v5Metadata(event, cx)
      [] OTHER -> cx

---------------------------------------------------------------------------
(* processLangGraphEvent: one parsed line *)

\* new Set(state.analysts.map(a => a.name)), taken once per line.
processedAnalystNames(st) == {st.analysts[i].name : i \in 1..Len(st.analysts)}

\* item.data?.name
OptName(item) == IF HasData(item) THEN Str(item["data"], "name") ELSE UNDEF

\* for (const item of event) { if (duplicate analyst) continue; await processResearchEvent(...) }
\* An exception leaves the loop: the items after it are not processed.
RECURSIVE processItems(_, _, _)
processItems(items, names, cx) ==
    IF items = <<>> \/ cx.threw THEN cx
    ELSE LET item == Head(items) IN
         IF item = NullItem THEN Throw(cx)
         ELSE IF TypeIs(item, <<"analyst">>) /\ OptName(item) \in names
              THEN processItems(Tail(items), names, cx)
              ELSE processItems(Tail(items), names, processResearchEvent(item, cx))

\* event.type?.startsWith('data-')
IsDataType(event) ==
    "type" \in DOMAIN event /\ event["type"] # <<>> /\ Head(event["type"]) = "data-"

\* Skip duplicate analysts in v5 format too.
skipV5Analyst(event, names) ==
    /\ event["type"] = <<"data-", "analyst">>
    /\ TruthyStr(OptName(event))
    /\ OptName(event) \in names

TextDelta(delta, id) == [type |-> "text-delta", delta |-> delta, id |-> id, transient |-> FALSE]

\* Variant of PartEvent that names the part and loses its payload.
PartEventWithoutPayload(partName, value) ==
    [type |-> <<"data-">> \o [k \in 1..Len(partName) |-> partName[k].ch], data |-> EmptyObj]

\* The data of a raw data part: the parsed JSON between the brackets.
PartEvent(partName, value) ==
    LET type == <<"data-">> \o [k \in 1..Len(partName) |-> partName[k].ch] IN
    CASE TypeOf(value) = "object" -> [type |-> type, data |-> ValueOf(value)]
      [] TypeOf(value) = "null" -> [type |-> type]
      [] OTHER -> [type |-> type, data |-> EmptyObj]

\* trimmed.match(/^2:([^[]+)\[(.+)\]$/) on the text after "2:": the index of the
\* first "[" when the text matches, else 0.
matchDataPart(rest) ==
    IF \E i \in 1..Len(rest) : rest[i] = Ch("[")
    THEN LET i == CHOOSE k \in 1..Len(rest) :
                      rest[k] = Ch("[") /\ \A j \in 1..(k - 1) : rest[j] # Ch("[")
         IN  IF i >= 2 /\ Len(rest) >= i + 2 /\ rest[Len(rest)] = Ch("]") THEN i ELSE 0
    ELSE 0

rawToken(string, cx) ==
    LET trimmed == Trim(string)
        rest == Tail(trimmed)
    IN  IF trimmed = <<>> THEN cx
        ELSE CASE Head(trimmed) = Ch("0:") ->
                    Write(cx, TextDelta(rest, "research-text"))
               [] Head(trimmed) = Ch("2:") ->
                    LET i == matchDataPart(rest)
                        jsonData == SubSeq(rest, i + 1, Len(rest) - 1)
                    IN  IF i = 0 \/ ~JsonValid(jsonData) THEN cx
                        ELSE \* the try around processV5DataPart swallows what it throws
                             [processV5DataPart(PartEvent(SubSeq(rest, 1, i - 1),
                                                          JsonParse(jsonData)), cx)
                                 EXCEPT !.threw = FALSE]
               [] Head(trimmed) = Ch("3:") ->
                    IF JsonValid(rest)
                    THEN Write(cx, Part("data-error", [error |-> JsonParse(rest)], TRUE))
                    ELSE cx
               [] OTHER -> cx

processObject(event, cx) ==
    LET names == processedAnalystNames(cx.state) IN
    CASE IsDataType(event) ->
            IF skipV5Analyst(event, names) THEN cx
            ELSE IF event["type"] = <<"data-", "heartbeat">> THEN cx
            ELSE processV5DataPart(event, cx)
      [] TypeIs(event, <<"updates">>) -> cx
      [] TypeIs(event, <<"messages">>) \/ TypeIs(event, <<"messages/partial">>) -> cx
      [] TypeIs(event, <<"custom">>) /\ HasData(event) ->
            \* Array.isArray(event.data): an array is held as [items |-> <<...>>]
            IF "items" \in DOMAIN event["data"]
            THEN processItems(event["data"]["items"], names, cx) ELSE cx
      [] TypeIs(event, <<"text-delta">>) /\ "delta" \in DOMAIN event /\ event["delta"] # <<>> ->
            Write(cx, TextDelta(event["delta"],
                      IF TruthyStr(Str(event, "id")) THEN event["id"] ELSE "research-text"))
      [] OTHER -> cx   \* text-start, text-end, and every other object

\* The console.log at the top reads event.type: it throws on null.
processLangGraphEvent(event, cx) ==
    CASE TypeOf(event) = "null" -> Throw(cx)
      [] TypeOf(event) = "array" ->
            processItems(ValueOf(event), processedAnalystNames(cx.state), cx)
      [] TypeOf(event) = "object" -> processObject(ValueOf(event), cx)
      [] TypeOf(event) = "string" -> rawToken(ValueOf(event), cx)
      [] OTHER -> cx

---------------------------------------------------------------------------
(* streamFromLangGraph: the read loop, and POST.execute around it *)

\* Variant of split that loses the piece after the last newline.
RECURSIVE splitDropsFragment(_)
splitDropsFragment(text) ==
    IF \A i \in 1..Len(text) : text[i] # NL THEN << <<>> >>
    ELSE LET i == CHOOSE k \in 1..Len(text) :
                      text[k] = NL /\ \A j \in 1..(k - 1) : text[j] # NL
         IN  <<SubSeq(text, 1, i - 1)>> \o splitDropsFragment(SubSeq(text, i + 1, Len(text)))

\* buffer.split('\n'): the pieces between the newlines (at least one piece).
RECURSIVE split(_)
split(text) ==
    IF \A i \in 1..Len(text) : text[i] # NL THEN <<text>>
    ELSE LET i == CHOOSE k \in 1..Len(text) :
                      text[k] = NL /\ \A j \in 1..(k - 1) : text[j] # NL
         IN  <<SubSeq(text, 1, i - 1)>> \o split(SubSeq(text, i + 1, Len(text)))

\* Variant of processLine that reports a payload it cannot parse downstream.
processLineReportsParse(line, cx) ==
    IF Trim(line) = <<>> THEN cx
    ELSE IF Head(line) = DataMarker
         THEN IF JsonValid(Tail(line))
              THEN [processLangGraphEvent(JsonParse(Tail(line)), cx) EXCEPT !.threw = FALSE]
              ELSE Write(cx, Part("data-error", [error |-> "parse"], TRUE))
         ELSE cx

\* The body of "for (const line of lines)": blank lines and lines without the
\* 'data: ' prefix are passed over; what JSON.parse or the handler throws is caught.
processLine(line, cx) ==
    IF Trim(line) = <<>> THEN cx
    ELSE IF Head(line) = DataMarker /\ JsonValid(Tail(line))
         THEN [processLangGraphEvent(JsonParse(Tail(line)), cx) EXCEPT !.threw = FALSE]
         ELSE cx

\* Variant of processLines that handles the last line of a chunk first.
RECURSIVE processLinesLastFirst(_, _)
processLinesLastFirst(lines, cx) ==
    IF lines = <<>> THEN cx
    ELSE processLine(Head(lines), processLinesLastFirst(Tail(lines), cx))

RECURSIVE processLines(_, _)
processLines(lines, cx) ==
    IF lines = <<>> THEN cx
    ELSE processLines(Tail(lines), processLine(Head(lines), cx))

\* The state built by POST before the stream is created.
researchState ==
    [topic |-> "query", phase |-> "initialization", analysts |-> <<>>,
     interviews |-> EmptyObj, sections |-> EmptyObj, searches |-> <<>>,
     progress |-> [current |-> 0, total |-> 0, message |-> "Starting research..."],
     error |-> <<>>]

\* Variant of ErrorPart without the transient flag.
ErrorPartPersistent(message) ==
    Part("data-error", [error |-> [message |-> message, type |-> "Error"]], FALSE)

\* The data-error part written by the catch of execute.
ErrorPart(message) ==
    Part("data-error", [error |-> [message |-> message, type |-> "Error"]], TRUE)

\* Variant of CompletePart that reports the phase last stored.
CompletePartKeepsPhase(st) ==
    Part("data-research-complete",
         [phase |-> st.phase, analysts |-> st.analysts, interviews |-> st.interviews,
          sections |-> st.sections, searches |-> st.searches], FALSE)

\* Variant of CompletePart that leaves the searches out.
CompletePartNoSearches(st) ==
    Part("data-research-complete",
         [phase |-> "completed", analysts |-> st.analysts, interviews |-> st.interviews,
          sections |-> st.sections, searches |-> <<>>], FALSE)

\* The final part: phase 'completed' and the accumulated collections.
CompletePart(st) ==
    Part("data-research-complete",
         [phase |-> "completed", analysts |-> st.analysts, interviews |-> st.interviews,
          sections |-> st.sections, searches |-> st.searches], FALSE)

---------------------------------------------------------------------------
(* The upstream: what a run may receive *)

\* The number of events a run receives at most (batch elements counted one by one).
MaxEvents == 4

\* Wire shapes of an event of a kind with a payload.
legacy(kind, data) == [type |-> <<kind>>, data |-> data]
discrete(kind, data) == [type |-> <<"data-", kind>>, data |-> data]
withTransient(event) == MapSet(event, "transient", TRUE)
withId(event) == MapSet(event, "id", "id-1")
raw2(kind, data) == JStr(<<Ch("2:"), Ch(kind), Ch("["), JsonText(JObj(data)), Ch("]")>>)

\* One complete line of the stream carrying a JSON value.
Line(value) == <<DataMarker, JsonText(value), NL>>

\* All arrays of at most n elements of E.
Batches(E, n) == UNION {[1..k -> E] : k \in 0..n}

\* An element of a known kind without its data: reconciling it throws.
NoDataItem == [type |-> <<"interview">>]

AnalystA1 == [name |-> "A", role |-> "R1", affiliation |-> "X", esgFocus |-> "F"]
AnalystA2 == [name |-> "A", role |-> "R2", affiliation |-> "Y", esgFocus |-> "G",
              esgCategories |-> "E,S"]
AnalystB1 == [name |-> "B", role |-> "R1", affiliation |-> "X", esgFocus |-> "F"]
AnalystData == {AnalystA1, AnalystA2, AnalystB1}

\* A custom event of a subgraph carrying an array of legacy elements.
custom(items) == [type |-> <<"custom">>, data |-> [items |-> items]]

\* The lines that carry exactly one event of a kind with a payload, one per
\* recognized wire shape.
LegacyLine(kind, data) == Line(JArr(<<legacy(kind, data)>>))
DiscreteLine(kind, data) == Line(JObj(discrete(kind, data)))
TransientLine(kind, data) == Line(JObj(withTransient(discrete(kind, data))))
RawLine(kind, data) == Line(raw2(kind, data))
CustomLine(kind, data) == Line(JObj(custom(<<legacy(kind, data)>>)))

\* Analyst events in every wire shape; n bounds the length of a batch.
AnalystFeed(n) ==
    {Line(JArr(b)) : b \in Batches({legacy("analyst", d) : d \in AnalystData}
                                     \cup {NoDataItem}, n)}
    \cup {DiscreteLine("analyst", d) : d \in AnalystData}
    \cup {TransientLine("analyst", d) : d \in AnalystData}
    \cup {RawLine("analyst", d) : d \in AnalystData}
    \cup {CustomLine("analyst", d) : d \in AnalystData}

InterviewAQ1 == [analystName |-> "A", status |-> "questioning", messagePreview |-> "Q1"]
InterviewAR2 == [analystName |-> "A", status |-> "answering", messagePreview |-> "R2"]
InterviewBQ1 == [analystName |-> "B", status |-> "questioning", messagePreview |-> "Q1"]
InterviewAStarted == [analystName |-> "A", status |-> "started"]
InterviewData == {InterviewAQ1, InterviewAR2, InterviewBQ1, InterviewAStarted}

\* Interview events in every wire shape, with an analyst beside them in the batches.
InterviewFeed(n) ==
    {Line(JArr(b)) : b \in Batches({legacy("interview", d) : d \in InterviewData}
                                     \cup {legacy("analyst", AnalystA1), NoDataItem}, n)}
    \cup {DiscreteLine("interview", d) : d \in InterviewData}
    \cup {RawLine("interview", d) : d \in InterviewData}

SearchStarted == [tool |-> "web_search", query |-> "q1", status |-> "started"]
SearchDone5 ==
    [tool |-> "web_search", query |-> "q1", status |-> "completed", resultsCount |-> 5]
SearchDone0 ==
    [tool |-> "web_search", query |-> "q1", status |-> "completed", resultsCount |-> 0]
SearchDoneNoCount == [tool |-> "web_search", query |-> "q1", status |-> "completed"]
SearchError3 ==
    [tool |-> "wikipedia_search", query |-> "q2", status |-> "error", resultsCount |-> 3]
SearchData == {SearchStarted, SearchDone5, SearchDone0, SearchDoneNoCount, SearchError3}

\* Whether the payload of a Search event is one the spec persists.
Persisted(d) ==
    d["status"] = "completed" /\ "resultsCount" \in DOMAIN d /\ d["resultsCount"] > 0

\* Search events in every wire shape.
SearchFeed(n) ==
    {Line(JArr(b)) : b \in Batches({legacy("search", d) : d \in SearchData}
                                     \cup {NoDataItem}, n)}
    \cup {DiscreteLine("search", d) : d \in {SearchDone5, SearchStarted}}
    \cup {TransientLine("search", d) : d \in {SearchDone5, SearchError3}}
    \cup {RawLine("search", d) : d \in {SearchDone5}}

SectionA1 == [analystName |-> "A", contentPreview |-> "T1"]
Progress1 == [message |-> "Generating analysts", phase |-> "analysts", current |-> 1,
              total |-> 3]
Error1 == [error |-> "boom", errorType |-> "ValueError"]
Metadata1 == [note |-> "n"]

\* A legacy progress element as lib/types/research declares it: the fields on the
\* element itself, not under data.
legacyProgress(data) == [type |-> <<"progress">>] @@ data

\* One payload per kind, for the claims that compare the kinds or the shapes.
KindPayloads ==
    {<<"analyst", AnalystA1>>, <<"progress", Progress1>>, <<"interview", InterviewAQ1>>,
     <<"search", SearchDone5>>, <<"section", SectionA1>>, <<"error", Error1>>,
     <<"metadata", Metadata1>>}

\* Events of several kinds in one run.
MixedFeed(n) ==
    {Line(JArr(b)) : b \in Batches({legacy("analyst", AnalystA1),
                                      legacy("interview", InterviewAQ1),
                                      legacy("search", SearchDone5),
                                      legacy("section", SectionA1),
                                      legacyProgress(Progress1)}, n)}
    \cup {DiscreteLine("analyst", AnalystB1), DiscreteLine("interview", InterviewAR2),
          DiscreteLine("progress", Progress1), TransientLine("error", Error1),
          Line(JObj(withId(discrete("section", SectionA1))))}

\* The values of the lines of a stream whose chunks do not end where its lines end.
FramedValues ==
    {JArr(<<legacy("analyst", AnalystA1)>>),
     JObj(discrete("interview", InterviewAR2)),
     JArr(<<legacy("section", SectionA1), legacy("interview", InterviewAQ1)>>),
     JArr(<<legacy("interview", InterviewAQ1), legacy("section", SectionA1)>>)}

\* The same lines cut into chunks in several ways: a whole line, two lines in one
\* chunk, a line without its newline, and that newline followed by the next line
\* (whole or again without its newline).
FramedChunks ==
    {Line(v) : v \in FramedValues}
    \cup {Line(v) \o Line(w) : v, w \in FramedValues}
    \cup {<<DataMarker, JsonText(v)>> : v \in FramedValues}
    \cup {<<NL>> \o Line(v) : v \in FramedValues}
    \cup {<<NL, DataMarker, JsonText(v)>> : v \in FramedValues}

\* A line whose payload is no JSON text (a value followed by a stray brace):
\* JSON.parse throws.
BadJsonLine == <<DataMarker, JsonText(JNull), Ch("}"), NL>>

\* Values the dispatcher has no branch for.
UnknownValues ==
    {JNull, JNum(42), JObj([note |-> "n"]), JObj([type |-> <<"frobnicate">>]),
     JStr(<<Ch("hello")>>)}

\* Batch elements of a kind the switch does not list.
Frobnicate == [type |-> <<"frobnicate">>, data |-> [note |-> "n"]]
Heartbeat == [type |-> <<"heartbeat">>, data |-> [note |-> "n"]]

\* The lines that carry one heartbeat, one per wire shape.
HeartbeatLines ==
    {Line(JArr(<<Heartbeat>>)), Line(JObj(discrete("heartbeat", EmptyObj))),
     RawLine("heartbeat", EmptyObj)}

\* Lines the pipeline has nothing to do for, alone or in a chunk before a line it
\* reconciles, and batches with elements of unknown kinds among the known ones.
NoiseFeed(n) ==
    {Line(JArr(b)) : b \in Batches({legacy("analyst", AnalystA1), Frobnicate,
                                      Heartbeat}, n)}
    \cup {Line(v) : v \in UnknownValues}
    \cup {BadJsonLine, CustomLine("analyst", AnalystB1)}
    \cup HeartbeatLines
    \cup (IF n < 2 THEN {}
          ELSE {l \o LegacyLine("analyst", AnalystB1) :
                    l \in {BadJsonLine} \cup {Line(v) : v \in UnknownValues}})

\* A raw error token: "3:" and the JSON of the error.
raw3(data) == JStr(<<Ch("3:"), JsonText(JObj(data))>>)

\* One event per line, of every kind: in the legacy shape, as discrete events
\* with and without the transient flag, and an error as a raw token.
FlagFeed ==
    {LegacyLine("analyst", AnalystA1), LegacyLine("interview", InterviewAQ1),
     LegacyLine("section", SectionA1), LegacyLine("error", Error1),
     Line(JArr(<<legacyProgress(Progress1)>>)),
     DiscreteLine("analyst", AnalystB1), DiscreteLine("interview", InterviewBQ1),
     DiscreteLine("search", SearchDone5),
     Line(JObj(withId(discrete("section", SectionA1)))),
     TransientLine("progress", Progress1), TransientLine("search", SearchDone5),
     TransientLine("error", Error1), TransientLine("metadata", Metadata1),
     Line(raw3(Error1))}

ProgressDone == [message |-> "Done", phase |-> "completed", current |-> 3, total |-> 3]
ProgressNoPhase == [message |-> "Working", current |-> 2, total |-> 3]
MetadataPhase == [phase |-> "report"]

\* A raw text token: "0:" and the text.
raw0(text) == JStr(<<Ch("0:")>> \o text)

\* Progress events with and without a phase, in the legacy and the discrete
\* shape, among events of the kinds that declare no phase.
PhaseFeed ==
    {Line(JArr(<<legacyProgress(d)>>)) : d \in {Progress1, ProgressDone, ProgressNoPhase}}
    \cup {DiscreteLine("progress", d) : d \in {Progress1, ProgressDone, ProgressNoPhase}}
    \cup {LegacyLine("metadata", MetadataPhase), TransientLine("metadata", MetadataPhase),
          LegacyLine("error", Error1), DiscreteLine("error", Error1),
          LegacyLine("analyst", AnalystA1), Line(raw0(<<Ch("Hello")>>))}

SectionA2 == [analystName |-> "A", contentPreview |-> "T2"]
SectionB1 == [analystName |-> "B", contentPreview |-> "T1"]
SectionData == {SectionA1, SectionA2, SectionB1}

\* A discrete event with an id.
IdLine(kind, data) == Line(JObj(withId(discrete(kind, data))))

\* A line that is the JSON text itself, without the 'data: ' prefix.
BareLine(value) == <<JsonText(value), NL>>
BareValues ==
    {JArr(<<legacy("section", SectionB1)>>), JObj(withId(discrete("section", SectionA2)))}

\* Section events of two participants: legacy, discrete without and with an id;
\* and Section events on lines without the prefix.
SectionFeed ==
    {LegacyLine("section", d) : d \in SectionData}
    \cup {DiscreteLine("section", d) : d \in SectionData}
    \cup {IdLine("section", d) : d \in SectionData}
    \cup {Line(JObj(withTransient(withId(discrete("section", SectionA2)))))}
    \cup {BareLine(v) : v \in BareValues}

\* The texts of the raw text tokens: plain, ending with a space, starting with one.
Texts == {<<Ch("Hello")>>, <<Ch("Hello"), SP>>, <<SP, Ch("world")>>}

\* Passthrough token objects.
TextStart == [type |-> <<"text-start">>, id |-> "t1"]
TextDeltaObject == [type |-> <<"text-delta">>, id |-> "t1", delta |-> <<Ch("Hi")>>]
TextEnd == [type |-> <<"text-end">>, id |-> "t1"]

\* The lines of the events that carry nothing for the session state: metadata,
\* text, heartbeats, and the updates and messages objects of the upstream.
MetadataLines ==
    {LegacyLine("metadata", Metadata1), DiscreteLine("metadata", Metadata1),
     TransientLine("metadata", MetadataPhase)}
TextLines ==
    {Line(raw0(t)) : t \in Texts} \cup {Line(JObj(o)) : o \in {TextStart, TextDeltaObject, TextEnd}}
UpstreamLines ==
    {Line(JObj([type |-> <<t>>, data |-> [note |-> "n"]])) :
        t \in {"updates", "messages", "messages/partial"}}
QuietLines ==
    MetadataLines \cup TextLines \cup UpstreamLines
    \cup {Line(JObj(discrete("heartbeat", EmptyObj)))}

\* The quiet lines, and an analyst and an error for the state they must not touch.
QuietFeed == QuietLines \cup {LegacyLine("analyst", AnalystA1), LegacyLine("error", Error1)}

\* type ResearchPhase, in the order of its declaration.
ResearchPhase ==
    <<"initialization", "topic_extraction", "research_brief", "analysts", "interviews",
      "report", "completed">>

\* A Progress payload that declares phase p.
ProgressIn(p) == [message |-> "Working", phase |-> p, current |-> 1, total |-> 3]

\* Progress payloads that carry only counts (zero), only a message.
ProgressZero == [current |-> 0, total |-> 0]
ProgressMessageOnly == [message |-> "Still working"]
ProgressPartial == {ProgressZero, ProgressMessageOnly}

\* A line that carries one Progress event, in the legacy or the discrete shape.
ProgressLines(d) == {Line(JArr(<<legacyProgress(d)>>)), DiscreteLine("progress", d)}

\* Progress events of every declared phase in both shapes, and Progress events
\* with fields left out.
ProgressFeed ==
    UNION {ProgressLines(ProgressIn(ResearchPhase[i])) : i \in 1..Len(ResearchPhase)}
    \cup {DiscreteLine("progress", ProgressZero),
          Line(JArr(<<legacyProgress(ProgressMessageOnly)>>))}

\* type InterviewStatus.
InterviewStatus == {"started", "questioning", "searching", "answering", "completed"}

\* An Interview payload of analyst A whose message names its status.
InterviewIn(status) == [analystName |-> "A", status |-> status, messagePreview |-> status]

\* The metadata of an Interview event that gives the role.
RoleMetadata(role) == [role |-> role]

\* One Interview event on a line. The legacy element has its metadata beside its
\* data (interface InterviewEvent), the discrete event inside its data
\* (ResearchDataParts); role UNDEF stands for an event without metadata.
RoleLegacyLine(d, role) ==
    Line(JArr(<<IF role = UNDEF THEN legacy("interview", d)
                ELSE legacy("interview", d) @@ [metadata |-> RoleMetadata(role)]>>))
RoleDiscreteLine(d, role) ==
    DiscreteLine("interview", IF role = UNDEF THEN d
                              ELSE d @@ [metadata |-> RoleMetadata(role)])
RoleLines(d, role) == {RoleLegacyLine(d, role), RoleDiscreteLine(d, role)}

\* The statuses with the role their metadata gives against the status.
RoleGiven == {<<"questioning", "assistant">>, <<"answering", "user">>}

\* Interview events of every status without metadata, and events whose metadata
\* gives the other role than their status would, in both shapes.
RoleFeed ==
    UNION {RoleLines(InterviewIn(s), UNDEF) : s \in InterviewStatus}
    \cup UNION {RoleLines(InterviewIn(g[1]), g[2]) : g \in RoleGiven}

\* The events a chunk carries: the elements of its arrays, one for any other value.
RECURSIVE Cost(_)
Cost(chunk) ==
    IF chunk = <<>> THEN 0
    ELSE (IF Head(chunk).ch = "json"
          THEN (IF TypeOf(Head(chunk).v) = "array" /\ Len(ValueOf(Head(chunk).v)) > 1
                THEN Len(ValueOf(Head(chunk).v)) ELSE 1)
          ELSE 0) + Cost(Tail(chunk))

RECURSIVE Received(_)
Received(chunks) ==
    IF chunks = <<>> THEN 0 ELSE Cost(Head(chunks)) + Received(Tail(chunks))

\* The chunks the upstream of a run may deliver, by the name of its feed.
\* n is what is left of MaxEvents: no chunk of the set carries more events.
Chunks(name, n) ==
    IF n < 1 THEN {}
    ELSE CASE name = "analyst" -> AnalystFeed(n)
           [] name = "interview" -> InterviewFeed(n)
           [] name = "search" -> SearchFeed(n)
           [] name = "mixed" -> MixedFeed(n)
           [] name = "framed" -> {c \in FramedChunks : Cost(c) <= n}
           [] name = "noise" -> NoiseFeed(n)
           [] name = "flags" -> FlagFeed
           [] name = "phase" -> PhaseFeed
           [] name = "section" -> SectionFeed
           [] name = "quiet" -> QuietFeed
           [] name = "progress" -> ProgressFeed
           [] name = "role" -> RoleFeed
           [] OTHER -> {}

---------------------------------------------------------------------------
(* The state machine *)

InitWith(f) ==
    /\ state = researchState
    /\ writer = <<>>
    /\ buffer = <<>>
    /\ pc = "execute"
    /\ input = <<>>
    /\ feed = f
    /\ overdue = FALSE
    /\ stalled = FALSE
    /\ warnings = 0

\* execute: the initial data-research-state part, then streamFromLangGraph.
Execute ==
    /\ pc = "execute"
    /\ writer' = Append(writer, Part("data-research-state",
                            [phase |-> state.phase, topic |-> state.topic], FALSE))
    /\ pc' = "connect"
    /\ UNCHANGED <<state, buffer, input, feed, overdue, stalled, warnings>>

\* The run request: it answers 2xx with a body, or it fails (the fetch rejects,
\* the status is not ok, there is no body); a failure is thrown to execute's catch.
Connect ==
    /\ pc = "connect"
    /\ \E outcome \in {"ok", "rejected", "not ok", "no body"} :
          IF outcome = "ok"
          THEN pc' = "reading" /\ UNCHANGED writer
          ELSE pc' = "failed" /\ writer' = Append(writer, ErrorPart(outcome))
    /\ UNCHANGED <<state, buffer, input, feed, overdue, stalled, warnings>>

\* Whether "lastActivityTime = Date.now()" is reached for one of the lines: the
\* line is parsed and processLangGraphEvent returns without throwing.
RECURSIVE activity(_, _)
activity(lines, cx) ==
    IF lines = <<>> THEN FALSE
    ELSE LET line == Head(lines) IN
         \/ /\ Trim(line) # <<>>
            /\ Head(line) = DataMarker
            /\ JsonValid(Tail(line))
            /\ ~processLangGraphEvent(JsonParse(Tail(line)), cx).threw
         \/ activity(Tail(lines), processLine(line, cx))

\* Variant of stallCheck that leaves the loop when the stream has stalled.
stallCheckBreaks(isStalled) == IF isStalled THEN "failed" ELSE "reading"

\* "if (timeSinceLastActivity > 30000) { console.warn(...) }": where the loop goes
\* after the check ("Don't break, let the stream continue").
stallCheck(isStalled) == "reading"

\* One turn of the read loop with done = false: the chunk is appended to the
\* buffer, the complete lines are processed in order, the last piece is kept;
\* then the stall check warns if no line of the turn refreshed lastActivityTime
\* and 30 seconds had passed since it was set.
Read ==
    /\ pc = "reading"
    /\ \E chunk \in Chunks(feed, MaxEvents - Received(input)) :
          /\ LET lines == split(buffer \o chunk)
                 complete == SubSeq(lines, 1, Len(lines) - 1)
                 cx == processLines(complete, Cx(state, writer, FALSE))
                 isStalled == stalled /\ ~activity(complete, Cx(state, writer, FALSE))
             IN  /\ buffer' = lines[Len(lines)]
                 /\ state' = cx.state
                 /\ writer' = cx.writer
                 /\ stalled' = isStalled
                 /\ warnings' = IF isStalled THEN warnings + 1 ELSE warnings
                 /\ pc' = stallCheck(isStalled)
          /\ input' = Append(input, chunk)
    /\ UNCHANGED <<feed, overdue>>

\* reader.read() answers done: the loop ends and the final part is written.
ReadDone ==
    /\ pc = "reading"
    /\ writer' = Append(writer, CompletePart(state))
    /\ pc' = "done"
    /\ UNCHANGED <<state, buffer, input, feed, overdue, stalled, warnings>>

\* reader.read() rejects: the error is re-thrown to execute's catch.
ReadThrows ==
    /\ pc = "reading"
    /\ writer' = Append(writer, ErrorPart("read failed"))
    /\ pc' = "failed"
    /\ UNCHANGED <<state, buffer, input, feed, overdue, stalled, warnings>>

Next == Execute \/ Connect \/ Read \/ ReadDone \/ ReadThrows

\* setTimeout(() => controller.abort(), 300000) fires while the fetch of the run
\* request is pending: the fetch rejects and the error reaches execute's catch.
FetchTimesOut ==
    /\ pc = "connect"
    /\ overdue' = TRUE
    /\ writer' = Append(writer, ErrorPart("aborted"))
    /\ pc' = "failed"
    /\ UNCHANGED <<state, buffer, input, feed, stalled, warnings>>

\* The 5 minutes pass while the body is read: clearTimeout(timeoutId) has run when
\* the fetch resolved, so nothing fires.
HardBoundPasses ==
    /\ pc = "reading"
    /\ ~overdue
    /\ overdue' = TRUE
    /\ UNCHANGED <<state, writer, buffer, pc, input, feed, stalled, warnings>>

\* The runs of any duration.
NextTimed == Next \/ FetchTimesOut \/ HardBoundPasses

\* 30 seconds pass while the loop waits in reader.read(): nothing runs.
StallPasses ==
    /\ pc = "reading"
    /\ ~stalled
    /\ stalled' = TRUE
    /\ UNCHANGED <<state, writer, buffer, pc, input, feed, overdue, warnings>>

\* The runs in which the upstream may fall silent.
NextWatched == Next \/ StallPasses

InitAnalyst == InitWith("analyst")
SpecAnalyst == InitAnalyst /\ [][Next]_vars

InitInterview == InitWith("interview")
SpecInterview == InitInterview /\ [][Next]_vars

InitSearch == InitWith("search")
SpecSearch == InitSearch /\ [][Next]_vars

InitMixed == InitWith("mixed")
SpecMixed == InitMixed /\ [][Next]_vars

SpecTimed == InitMixed /\ [][NextTimed]_vars

InitFramed == InitWith("framed")
SpecFramed == InitFramed /\ [][Next]_vars

InitNoise == InitWith("noise")
SpecNoise == InitNoise /\ [][Next]_vars

InitFlags == InitWith("flags")
SpecFlags == InitFlags /\ [][Next]_vars

InitPhase == InitWith("phase")
SpecPhase == InitPhase /\ [][Next]_vars

InitSection == InitWith("section")
SpecSection == InitSection /\ [][Next]_vars

InitQuiet == InitWith("quiet")
SpecQuiet == InitQuiet /\ [][Next]_vars

InitProgress == InitWith("progress")
SpecProgress == InitProgress /\ [][Next]_vars

InitRole == InitWith("role")
SpecRole == InitRole /\ [][Next]_vars

SpecWatched == InitSection /\ [][NextWatched]_vars

Init == \E f \in {"analyst", "interview", "search", "mixed", "framed", "noise",
                 "flags", "phase", "section", "quiet", "progress", "role"} :
            InitWith(f)
Spec == Init /\ [][Next]_vars

---------------------------------------------------------------------------
(* What the chunks of a run carried, read off the wire format *)

\* The JSON values of the complete lines read so far, in order.
RECURSIVE ValuesIn(_)
ValuesIn(chunks) ==
    IF chunks = <<>> THEN <<>>
    ELSE LET c == Head(chunks) IN
         (IF Len(c) = 3 /\ c[1] = DataMarker /\ c[2].ch = "json" /\ c[3] = NL
          THEN <<c[2].v>> ELSE <<>>) \o ValuesIn(Tail(chunks))

\* The names carried by the legacy Analyst elements of an array.
ItemNames(items) ==
    {items[i]["data"]["name"] : i \in {k \in 1..Len(items) :
        /\ items[k] # NullItem
        /\ TypeIs(items[k], <<"analyst">>)
        /\ HasData(items[k])
        /\ "name" \in DOMAIN items[k]["data"]}}

\* The names carried by the Analyst events of one value, in any wire shape.
AnalystNames(value) ==
    CASE TypeOf(value) = "array" -> ItemNames(ValueOf(value))
      [] TypeOf(value) = "object" ->
            LET o == ValueOf(value) IN
            IF TypeIs(o, <<"data-", "analyst">>) /\ HasData(o) /\ "name" \in DOMAIN o["data"]
            THEN {o["data"]["name"]}
            ELSE IF TypeIs(o, <<"custom">>) /\ HasData(o) THEN ItemNames(o["data"]["items"])
            ELSE {}
      [] TypeOf(value) = "string" ->
            LET str == ValueOf(value) IN
            IF Len(str) = 5 /\ str[1] = Ch("2:") /\ str[2] = Ch("analyst")
               /\ str[4].ch = "json" /\ "name" \in DOMAIN ValueOf(str[4].v)
            THEN {ValueOf(str[4].v)["name"]} ELSE {}
      [] OTHER -> {}

\* The distinct analyst names of all Analyst events received during the run.
ReceivedNames ==
    UNION {AnalystNames(ValuesIn(input)[i]) : i \in 1..Len(ValuesIn(input))}

\* The last chunk read.
LastChunk == input[Len(input)]

\* This step is a turn of the read loop that read chunk c.
ReadOf(c) == pc = "reading" /\ input' = Append(input, c)

---------------------------------------------------------------------------
(* Claims about the analyst roster (SpecAnalyst) *)

\* C1: after any sequence of upstream events, in any wire shape, no two entries of
\* the analysts roster have the same name.
C1_UniqueAnalystNames ==
    \A i, j \in 1..Len(state.analysts) :
        i # j => state.analysts[i].name # state.analysts[j].name

\* C1 witness: the name A was delivered twice, the second time as a raw 2: token
\* with other fields, and the roster holds A once, beside B.
C1_Witness ==
    /\ Len(input) >= 3
    /\ LastChunk = RawLine("analyst", AnalystA2)
    /\ input[1] \in {LegacyLine("analyst", AnalystA1), DiscreteLine("analyst", AnalystA1)}
    /\ Len(state.analysts) = 2
    /\ state.analysts[1] = AnalystOf(AnalystA2)

\* C2 (the claim as stated): an Analyst event whose name is already in the roster
\* replaces that entry in place: the roster keeps its length and order and the
\* entry carries the fields of the later event, whatever wire shape it came in.
C2_ReplacesInPlace ==
    [][\A d \in AnalystData :
         \A c \in {LegacyLine("analyst", d), DiscreteLine("analyst", d),
                   RawLine("analyst", d), CustomLine("analyst", d)} :
            (ReadOf(c) /\ findIndex(state.analysts, d.name) >= 1)
            => state'.analysts =
                  [state.analysts EXCEPT ![findIndex(state.analysts, d.name)] = AnalystOf(d)]
      ]_vars

\* C8 (the claim as stated): at normal termination the snapshot holds as many
\* analysts as there are distinct names among the Analyst events received.
C8_SnapshotCountsNames ==
    pc = "done" =>
        Len(writer[Len(writer)].data.analysts) = Cardinality(ReceivedNames)

---------------------------------------------------------------------------
(* Claims about the interview transcripts (SpecInterview) *)

\* The lines that carry exactly one Interview event with payload d.
InterviewLines(d) ==
    {LegacyLine("interview", d), DiscreteLine("interview", d), RawLine("interview", d)}

NoAdjacentEqual(messages) ==
    \A i \in 1..(Len(messages) - 1) : messages[i].content # messages[i + 1].content

\* C3: no participant's transcript ever holds two adjacent messages of equal
\* content, and an Interview event whose messagePreview equals the content of the
\* participant's last stored message appends nothing.
C3_NoAdjacentDuplicates ==
    /\ [](\A p \in DOMAIN state.interviews : NoAdjacentEqual(state.interviews[p]))
    /\ [][\A d \in InterviewData : \A c \in InterviewLines(d) :
            LET p == d["analystName"] IN
            (/\ ReadOf(c)
             /\ "messagePreview" \in DOMAIN d
             /\ p \in DOMAIN state.interviews
             /\ state.interviews[p] # <<>>
             /\ state.interviews[p][Len(state.interviews[p])].content = d["messagePreview"])
            => state'.interviews = state.interviews
        ]_vars

\* C3 witness: the same Interview event of A arrived as a legacy element and then
\* as a discrete event, and A's transcript holds its message once.
C3_Witness ==
    /\ Len(input) = 2
    /\ input[1] = LegacyLine("interview", InterviewAQ1)
    /\ input[2] = DiscreteLine("interview", InterviewAQ1)
    /\ Len(state.interviews["A"]) = 1
    /\ state.interviews["A"][1].content = "Q1"

\* A line whose value is a legacy batch array.
IsBatchLine(c) ==
    Len(c) = 3 /\ c[1] = DataMarker /\ c[2].ch = "json" /\ TypeOf(c[2].v) = "array"
       /\ c[3] = NL

\* C5 (the claim as stated): a legacy batch processed a second time, right after
\* the first, leaves the number of analysts and the number of messages of every
\* participant's transcript unchanged.
C5_RedeliveryKeepsCounts ==
    [][(/\ pc = "reading"
        /\ input # <<>>
        /\ IsBatchLine(LastChunk)
        /\ input' = Append(input, LastChunk))
       => /\ Len(state'.analysts) = Len(state.analysts)
          /\ DOMAIN state'.interviews = DOMAIN state.interviews
          /\ \A p \in DOMAIN state.interviews :
                Len(state'.interviews[p]) = Len(state.interviews[p])
      ]_vars

---------------------------------------------------------------------------
(* Claims about the searches (SpecSearch) *)

\* The entry of searches the legacy handler builds from a payload.
SearchEntry(d) ==
    [tool |-> d["tool"], query |-> d["query"], resultsCount |-> d["resultsCount"],
     sources |-> <<>>]

\* The payloads of the legacy Search elements of an array.
ItemSearches(items) ==
    {items[i]["data"] : i \in {k \in 1..Len(items) :
        items[k] # NullItem /\ TypeIs(items[k], <<"search">>) /\ HasData(items[k])}}

\* The payloads of the Search events one chunk carries, in any wire shape.
SearchesCarried(c) ==
    IF ValuesIn(<<c>>) = <<>> THEN {}
    ELSE LET value == ValuesIn(<<c>>)[1] IN
         CASE TypeOf(value) = "array" -> ItemSearches(ValueOf(value))
           [] TypeOf(value) = "object" ->
                 IF TypeIs(ValueOf(value), <<"data-", "search">>) /\ HasData(ValueOf(value))
                 THEN {ValueOf(value)["data"]} ELSE {}
           [] TypeOf(value) = "string" ->
                 LET str == ValueOf(value) IN
                 IF Len(str) = 5 /\ str[1] = Ch("2:") /\ str[2] = Ch("search")
                    /\ str[4].ch = "json"
                 THEN {ValueOf(str[4].v)} ELSE {}
           [] OTHER -> {}

\* C9: searches never shrinks, and every entry it gains in a step was appended for
\* a Search event of that step with status completed and a positive resultsCount;
\* so a step whose Search events are started, failed or without results leaves
\* searches as it was.
C9_OnlyCompletedSearches ==
    [][/\ Len(state'.searches) >= Len(state.searches)
       /\ SubSeq(state'.searches, 1, Len(state.searches)) = state.searches
       /\ \A i \in (Len(state.searches) + 1)..Len(state'.searches) :
             /\ input' # input
             /\ \E d \in SearchesCarried(input'[Len(input')]) :
                   Persisted(d) /\ state'.searches[i] = SearchEntry(d)
      ]_vars

\* C9 witness: a started, a completed (5 results) and a failed search (in this
\* order) were processed and searches holds the completed one only.
C9_Witness ==
    /\ Len(input) = 3
    /\ input[1] = LegacyLine("search", SearchStarted)
    /\ input[2] = LegacyLine("search", SearchDone5)
    /\ input[3] = LegacyLine("search", SearchError3)
    /\ state.searches = <<SearchEntry(SearchDone5)>>

\* C10 (the claim as stated): a Search event with status completed and a positive
\* resultsCount appends exactly one entry with its tool, query and resultsCount,
\* in every recognized wire shape.
C10_CompletedSearchAppends ==
    [][\A d \in {x \in SearchData : Persisted(x)} :
         \A c \in {LegacyLine("search", d), DiscreteLine("search", d),
                   RawLine("search", d)} :
            ReadOf(c) => state'.searches = Append(state.searches, SearchEntry(d))
      ]_vars

---------------------------------------------------------------------------
(* Claims about the shapes and the terminal snapshot (SpecMixed) *)

\* C4 (the claim as stated): from the same session state, a legacy batch element
\* {type: K, data: D} and a discrete event {type: "data-K", data: D} leave the same
\* session state and write the same parts, for every kind K.
C4_ShapesAgree ==
    \A kp \in KindPayloads :
        LET cx == Cx(state, writer, FALSE)
            asLegacy == processLine(<<DataMarker, JsonText(JArr(<<legacy(kp[1], kp[2])>>))>>, cx)
            asDiscrete == processLine(<<DataMarker, JsonText(JObj(discrete(kp[1], kp[2])))>>, cx)
        IN  asLegacy.state = asDiscrete.state /\ asLegacy.writer = asDiscrete.writer

\* The data-research-complete parts written so far.
CompleteParts == {i \in 1..Len(writer) : writer[i].type = "data-research-complete"}

\* C6: a run whose body was read to its end without an error has written exactly
\* one data-research-complete part, as its last part, with phase completed
\* whatever phase the stream last declared; no other run has written one.
C6_OneTerminalSnapshot ==
    /\ pc = "done" =>
          /\ CompleteParts = {Len(writer)}
          /\ writer[Len(writer)].data.phase = "completed"
    /\ pc # "done" => CompleteParts = {}

\* C6 witness: the stream ended after a Progress event had declared the phase
\* analysts.
C6_Witness ==
    /\ pc = "done"
    /\ state.phase = "analysts"
    /\ writer[Len(writer)].data.phase = "completed"

\* C7: the snapshot's analysts, interviews, sections and searches are those of the
\* session state at the end of the stream, and writing it changes no field of the
\* session state.
C7_SnapshotIsTheState ==
    [][(pc = "reading" /\ pc' = "done") =>
          /\ state' = state
          /\ Len(writer') = Len(writer) + 1
          /\ SubSeq(writer', 1, Len(writer)) = writer
          /\ LET data == writer'[Len(writer')].data IN
                /\ data.analysts = state.analysts
                /\ data.interviews = state.interviews
                /\ data.sections = state.sections
                /\ data.searches = state.searches
      ]_vars

\* C7 witness: the stream ended with an analyst, a transcript, a section and a
\* search accumulated.
C7_Witness ==
    /\ pc = "done"
    /\ state.analysts # <<>>
    /\ \E p \in DOMAIN state.interviews : state.interviews[p] # <<>>
    /\ DOMAIN state.sections # {}
    /\ state.searches # <<>>

---------------------------------------------------------------------------
(* Claims about the order of the downstream events (SpecFramed) *)

\* The whole text received so far.
RECURSIVE Flatten(_)
Flatten(chunks) ==
    IF chunks = <<>> THEN <<>> ELSE Head(chunks) \o Flatten(Tail(chunks))

\* The lines of a text that are terminated by a newline, in order.
CompleteLines(text) == SubSeq(split(text), 1, Len(split(text)) - 1)

\* The parts the elements of a batch write, element after element, each from the
\* state its predecessors left; names is the snapshot taken for the line.
RECURSIVE EmitItems(_, _, _)
EmitItems(items, names, st) ==
    IF items = <<>> THEN <<>>
    ELSE LET cx == processItems(<<Head(items)>>, names, Cx(st, <<>>, FALSE)) IN
         IF cx.threw THEN cx.writer
         ELSE cx.writer \o EmitItems(Tail(items), names, cx.state)

\* The parts one line writes from state st.
EmitLine(line, st) ==
    IF /\ line # <<>>
       /\ Head(line) = DataMarker
       /\ JsonValid(Tail(line))
       /\ TypeOf(JsonParse(Tail(line))) = "array"
    THEN EmitItems(ValueOf(JsonParse(Tail(line))), processedAnalystNames(st), st)
    ELSE processLine(line, Cx(st, <<>>, FALSE)).writer

\* The parts the lines write, line after line, each from the state its
\* predecessors left.
RECURSIVE EmitInOrder(_, _)
EmitInOrder(lines, st) ==
    IF lines = <<>> THEN <<>>
    ELSE EmitLine(Head(lines), st)
         \o EmitInOrder(Tail(lines), processLine(Head(lines), Cx(st, <<>>, FALSE)).state)

\* The parts written between the initial data-research-state part and the part
\* that ends the run.
BodyParts ==
    SubSeq(writer, 2, IF pc = "reading" THEN Len(writer) ELSE Len(writer) - 1)

\* C11: whenever the next chunk can be read, and when the run has ended, the parts
\* written for the lines are those of the complete lines received so far, in the
\* order of the lines and, inside a batch, in the order of its elements.
C11_EmittedInInputOrder ==
    pc \in {"reading", "done", "failed"} /\ input # <<>>
       => BodyParts = EmitInOrder(CompleteLines(Flatten(input)), researchState)

\* C11 witness: one chunk brought a batch of a section and an interview and, after
\* it, a discrete interview of another message; their parts are out in that order.
C11_Witness ==
    /\ pc = "reading"
    /\ input = <<Line(JArr(<<legacy("section", SectionA1),
                             legacy("interview", InterviewAQ1)>>))
                 \o Line(JObj(discrete("interview", InterviewAR2)))>>
    /\ [i \in 1..Len(writer) |-> writer[i].type]
          = <<"data-research-state", "data-sections", "data-interview",
              "data-interviews", "data-interviews">>

---------------------------------------------------------------------------
(* Claims about the failures of the upstream (SpecTimed) *)

\* C12: a failure of the run request (rejected or aborted fetch, status not ok, no
\* body) or of a read of the body appends exactly one part, a transient data-error,
\* and changes no state; the run then has no data-research-complete part, takes no
\* further step, and the run request is never made a second time.
C12_OneErrorThenStop ==
    /\ [](pc = "failed" =>
            /\ CompleteParts = {}
            /\ writer[Len(writer)].type = "data-error"
            /\ writer[Len(writer)].transient)
    /\ [][/\ (pc # "failed" /\ pc' = "failed") =>
                /\ pc \in {"connect", "reading"}
                /\ Len(writer') = Len(writer) + 1
                /\ SubSeq(writer', 1, Len(writer)) = writer
                /\ state' = state
          /\ pc # "failed"
          /\ pc' = "connect" => pc = "execute"
        ]_vars

\* C12 witness: reading the body failed after an analyst had been reconciled, and
\* the error part follows the parts of the lines.
C12_Witness ==
    /\ pc = "failed"
    /\ state.analysts # <<>>
    /\ writer[Len(writer)] = ErrorPart("read failed")
    /\ \E i \in 1..Len(writer) : writer[i].type = "data-analysts"

---------------------------------------------------------------------------
(* Claims about the input the pipeline has nothing to do for (SpecNoise) *)

\* The shapes the specification lists as recognized: a legacy batch, a discrete
\* data-* event, a raw token ("0:", "2:", "3:"), a passthrough token object, and
\* the acknowledged updates and messages objects.
ListedShape(value) ==
    CASE TypeOf(value) = "array" -> TRUE
      [] TypeOf(value) = "object" ->
            LET o == ValueOf(value) IN
            \/ IsDataType(o)
            \/ \E t \in {"text-start", "text-delta", "text-end", "updates", "messages",
                         "messages/partial"} : TypeIs(o, <<t>>)
      [] TypeOf(value) = "string" ->
            /\ Trim(ValueOf(value)) # <<>>
            /\ Head(Trim(ValueOf(value))) \in {Ch("0:"), Ch("2:"), Ch("3:")}
      [] OTHER -> FALSE

\* A custom object carrying an array: the dispatcher hands the elements of the
\* array to the legacy handler (route.ts, "custom events from subgraphs").
CustomBatch(value) ==
    /\ TypeOf(value) = "object"
    /\ TypeIs(ValueOf(value), <<"custom">>)
    /\ HasData(ValueOf(value))
    /\ "items" \in DOMAIN ValueOf(value)["data"]

\* A line with the marker whose payload is not JSON.
Unparsable(line) == line # <<>> /\ Head(line) = DataMarker /\ ~JsonValid(Tail(line))

\* A line with the marker whose payload is a JSON value.
Parsable(line) == line # <<>> /\ Head(line) = DataMarker /\ JsonValid(Tail(line))

\* A line the claim as stated takes for malformed: not JSON, or a value of no
\* listed shape.
Malformed(line) ==
    Unparsable(line) \/ (Parsable(line) /\ ~ListedShape(JsonParse(Tail(line))))

\* As Malformed, a custom object with an array apart.
Discarded(line) ==
    \/ Unparsable(line)
    \/ /\ Parsable(line)
       /\ ~ListedShape(JsonParse(Tail(line)))
       /\ ~CustomBatch(JsonParse(Tail(line)))

\* The lines left when the malformed lines (listed: in the sense of the claim as
\* stated) are taken out.
RECURSIVE Without(_, _)
Without(lines, listed) ==
    IF lines = <<>> THEN <<>>
    ELSE (IF (IF listed THEN Malformed(Head(lines)) ELSE Discarded(Head(lines)))
          THEN <<>> ELSE <<Head(lines)>>) \o Without(Tail(lines), listed)

\* This step reads a chunk and leaves what the lines of the chunk would leave
\* with the malformed lines taken out; the read loop goes on.
ReadsAsIfWithout(listed) ==
    (pc = "reading" /\ input' # input) =>
        LET lines == CompleteLines(buffer \o input'[Len(input')])
            cx == processLines(Without(lines, listed), Cx(state, writer, FALSE))
        IN  state' = cx.state /\ writer' = cx.writer /\ pc' = "reading"

\* C13 (the claim as stated): a line whose payload is not valid JSON or whose value
\* has none of the listed shapes changes no state, writes no part and does not
\* stop the lines after it.
C13_MalformedLineIsSkipped == [][ReadsAsIfWithout(TRUE)]_vars

\* C13 (amended): the same, for every such line but a custom object carrying an
\* array, whose elements are reconciled like those of a legacy batch; and the
\* terminal snapshot can still be written.
C13_DiscardedLineIsSkipped ==
    [][/\ ReadsAsIfWithout(FALSE)
       /\ (pc = "reading" /\ pc' = "done") => writer' = Append(writer, CompletePart(state))
      ]_vars

\* C13 witness: a chunk brought a line that is not JSON and, after it, an analyst;
\* the analyst was reconciled and the run ended with the snapshot.
C13_Witness ==
    /\ pc = "done"
    /\ input = <<BadJsonLine \o LegacyLine("analyst", AnalystB1)>>
    /\ state.analysts = <<AnalystOf(AnalystB1)>>
    /\ [i \in 1..Len(writer) |-> writer[i].type]
          = <<"data-research-state", "data-analysts", "data-research-complete">>

\* The kinds the switch of the legacy handler lists.
KnownKinds == {"analyst", "progress", "interview", "search", "section", "error", "metadata"}

\* The elements of a batch whose type is one of the known kinds (and the null
\* elements, which are no elements of an unknown type).
RECURSIVE KnownItems(_)
KnownItems(items) ==
    IF items = <<>> THEN <<>>
    ELSE (IF Head(items) = NullItem \/ \E k \in KnownKinds : TypeIs(Head(items), <<k>>)
          THEN <<Head(items)>> ELSE <<>>) \o KnownItems(Tail(items))

\* C14: a step that reads a legacy batch leaves the state and the parts that the
\* batch without its elements of unrecognized type would leave: such an element
\* changes nothing, writes nothing, and the elements after it are processed.
C14_UnknownElementIsAbsent ==
    [][(pc = "reading" /\ input' # input /\ IsBatchLine(input'[Len(input')])) =>
          LET items == ValueOf(input'[Len(input')][2].v)
              cx == processItems(KnownItems(items), processedAnalystNames(state),
                                 Cx(state, writer, FALSE))
          IN  state' = cx.state /\ writer' = cx.writer
      ]_vars

\* C14 witness: the batch [frobnicate, analyst A] was read and A is in the roster.
C14_Witness ==
    /\ input = <<Line(JArr(<<Frobnicate, legacy("analyst", AnalystA1)>>))>>
    /\ state.analysts = <<AnalystOf(AnalystA1)>>
    /\ writer[Len(writer)].type = "data-analysts"

---------------------------------------------------------------------------
(* Claims about the hard timeout (SpecTimed) *)

\* C15 (the claim as stated): once the 5 minutes of the hard timeout have passed,
\* the run reads no further chunk and does not end with the snapshot: the read is
\* aborted and the run fails.
C15_NoReadPastHardBound ==
    [][overdue => (input' = input /\ pc' # "done")]_vars

---------------------------------------------------------------------------
(* Claims about the transient flag *)

\* A line that carries one discrete event.
IsDiscreteLine(c) ==
    /\ Len(c) = 3 /\ c[1] = DataMarker /\ c[2].ch = "json" /\ c[3] = NL
    /\ TypeOf(c[2].v) = "object"
    /\ IsDataType(ValueOf(c[2].v))

\* A line that carries one discrete event whose transient flag is true.
IsTransientLine(c) == IsDiscreteLine(c) /\ TruthyBool(ValueOf(c[2].v), "transient")

\* The types of the parts that are UI hints, and of those that carry durable data.
TransientTypes ==
    {"data-progress", "data-interview", "data-search", "data-error", "data-metadata"}
PersistentTypes ==
    {"data-analysts", "data-sections", "data-interviews", "data-research-state",
     "data-research-complete"}

TypesWritten(c) ==
    LET w == processLine(SubSeq(c, 1, Len(c) - 1), Cx(state, <<>>, FALSE)).writer
    IN  [i \in 1..Len(w) |-> w[i].type]

\* C18 (the claim as stated): a step that reads a discrete Analyst, Progress,
\* Search, Section, Error or Metadata event with the transient flag writes parts of
\* the same types, in the same order, as the same event without the flag would
\* from the same state.
C18_ForwardingIgnoresFlag ==
    [][\A kp \in {x \in KindPayloads : x[1] # "interview"} :
          ReadOf(TransientLine(kp[1], kp[2])) =>
             [i \in 1..(Len(writer') - Len(writer)) |-> writer'[Len(writer) + i].type]
                = TypesWritten(DiscreteLine(kp[1], kp[2]))
      ]_vars

\* C16 (the claim as stated): a step that reads a discrete event whose transient
\* flag is true leaves analysts, interviews, sections and searches as they were.
C16_TransientLeavesDurable ==
    [][(pc = "reading" /\ input' # input /\ IsTransientLine(input'[Len(input')])) =>
          /\ state'.analysts = state.analysts
          /\ state'.interviews = state.interviews
          /\ state'.sections = state.sections
          /\ state'.searches = state.searches
      ]_vars

---------------------------------------------------------------------------
(* Claims about the parts of an Interview event (SpecInterview) *)

\* The number of messages of a participant's transcript.
MessageCount(interviews, p) == IF p \in DOMAIN interviews THEN Len(interviews[p]) ELSE 0

\* C19 (the claim as stated): a step that reads an Interview event, legacy or
\* discrete, writes first one transient data-interview part and then one
\* data-interviews part exactly if the event appended a message to the transcript
\* of its participant.
C19_HintThenTranscript ==
    [][\A d \in InterviewData :
         \A c \in {LegacyLine("interview", d), DiscreteLine("interview", d)} :
            ReadOf(c) =>
               LET new == SubSeq(writer', Len(writer) + 1, Len(writer'))
                   types == [i \in 1..Len(new) |-> new[i].type]
                   appended == MessageCount(state'.interviews, d["analystName"])
                                  > MessageCount(state.interviews, d["analystName"])
               IN  /\ SubSeq(writer', 1, Len(writer)) = writer
                   /\ types = IF appended THEN <<"data-interview", "data-interviews">>
                              ELSE <<"data-interview">>
                   /\ new[1].transient
                   /\ appended => ~new[2].transient
      ]_vars

---------------------------------------------------------------------------
(* Claims about the heartbeats (SpecNoise) *)

\* The elements of a batch that are no heartbeats.
RECURSIVE NoHeartbeats(_)
NoHeartbeats(items) ==
    IF items = <<>> THEN <<>>
    ELSE (IF Head(items) # NullItem /\ TypeIs(Head(items), <<"heartbeat">>)
          THEN <<>> ELSE <<Head(items)>>) \o NoHeartbeats(Tail(items))

\* C20: a step that reads a heartbeat (a discrete data-heartbeat event, a batch of
\* one heartbeat element, a raw 2:heartbeat token) writes no part, and a step that
\* reads a batch writes the parts of the batch without its heartbeat elements.
C20_HeartbeatsWriteNothing ==
    [][/\ \A c \in HeartbeatLines : ReadOf(c) => writer' = writer
       /\ (pc = "reading" /\ input' # input /\ IsBatchLine(input'[Len(input')])) =>
             writer' = processItems(NoHeartbeats(ValueOf(input'[Len(input')][2].v)),
                                    processedAnalystNames(state),
                                    Cx(state, writer, FALSE)).writer
      ]_vars

\* C20 witness: a discrete heartbeat, a raw heartbeat token and a batch of a
\* heartbeat and an analyst were read; the only part of the lines is the roster.
C20_Witness ==
    /\ input = <<Line(JObj(discrete("heartbeat", EmptyObj))),
                 RawLine("heartbeat", EmptyObj),
                 Line(JArr(<<Heartbeat, legacy("analyst", AnalystA1)>>))>>
    /\ [i \in 1..Len(writer) |-> writer[i].type] = <<"data-research-state", "data-analysts">>

---------------------------------------------------------------------------
(* Claims about the phase (SpecPhase) *)

\* The phases declared by the Progress and Metadata elements of a batch. A legacy
\* Progress element carries its phase on the element itself (lib/types/research).
ItemPhases(items) ==
    {items[i]["phase"] : i \in {k \in 1..Len(items) :
        /\ items[k] # NullItem
        /\ TypeIs(items[k], <<"progress">>) \/ TypeIs(items[k], <<"metadata">>)
        /\ "phase" \in DOMAIN items[k]}}

\* The phases declared by the Progress and Metadata events of one chunk.
PhasesDeclared(c) ==
    IF ValuesIn(<<c>>) = <<>> THEN {}
    ELSE LET value == ValuesIn(<<c>>)[1] IN
         CASE TypeOf(value) = "array" -> ItemPhases(ValueOf(value))
           [] TypeOf(value) = "object" ->
                 LET o == ValueOf(value) IN
                 IF /\ TypeIs(o, <<"data-", "progress">>) \/ TypeIs(o, <<"data-", "metadata">>)
                    /\ HasData(o)
                    /\ "phase" \in DOMAIN o["data"]
                 THEN {o["data"]["phase"]} ELSE {}
           [] OTHER -> {}

C22_CompletedIsTerminal ==
    [][state.phase = "completed" => state'.phase = "completed"]_vars

---------------------------------------------------------------------------
(* Claims about the sections (SpecSection) *)

\* C23 (the claim as stated): a step that reads a Section event of participant P
\* with preview T, legacy or discrete, with or without an id, leaves sections[P] = T
\* and the section of every other participant as it was.
C23_SectionLastWriteWins ==
    [][\A d \in SectionData :
         \A c \in {LegacyLine("section", d), DiscreteLine("section", d),
                   IdLine("section", d)} :
            ReadOf(c) =>
               /\ DOMAIN state'.sections = DOMAIN state.sections \cup {d["analystName"]}
               /\ state'.sections[d["analystName"]] = d["contentPreview"]
               /\ \A q \in DOMAIN state.sections \ {d["analystName"]} :
                     state'.sections[q] = state.sections[q]
      ]_vars

---------------------------------------------------------------------------
(* Claims about the error field (SpecFlags) *)

\* C24 (the claim as stated): a step that reads an Error event, as a legacy
\* element, as a discrete data-error event or as a raw 3: token, leaves the error
\* field holding the message and the kind of the event, and every other field of
\* the session state as it was.
C24_ErrorIsRecorded ==
    [][\A c \in {LegacyLine("error", Error1), DiscreteLine("error", Error1),
                 TransientLine("error", Error1), Line(raw3(Error1))} :
          ReadOf(c) =>
             state' = [state EXCEPT !.error = <<[message |-> Error1["error"],
                                                  type |-> Error1["errorType"]]>>]
      ]_vars

---------------------------------------------------------------------------
(* Claims about the growth of the transcripts (SpecInterview) *)

\* C25: every step leaves each participant's transcript as a prefix of the
\* participant's new transcript, and removes no participant from interviews.
C25_InterviewsAppendOnly ==
    [][\A p \in DOMAIN state.interviews :
          /\ p \in DOMAIN state'.interviews
          /\ Len(state'.interviews[p]) >= Len(state.interviews[p])
          /\ SubSeq(state'.interviews[p], 1, Len(state.interviews[p])) = state.interviews[p]
      ]_vars

\* C25 witness: A's transcript has grown to two messages and B's to one.
C25_Witness ==
    /\ DOMAIN state.interviews = {"A", "B"}
    /\ [i \in 1..Len(state.interviews["A"]) |-> state.interviews["A"][i].content]
          = <<"Q1", "R2">>
    /\ Len(state.interviews["B"]) = 1

---------------------------------------------------------------------------
(* Claims about the events that carry nothing for the state (SpecQuiet) *)

\* C26: a step that reads a Metadata event, a text token or passthrough text
\* object, a heartbeat, or an updates or messages object changes no field of the
\* session state; for an updates or messages object it writes no part either.
C26_QuietEventsKeepState ==
    [][/\ \A c \in QuietLines : ReadOf(c) => state' = state
       /\ \A c \in UpstreamLines : ReadOf(c) => writer' = writer
      ]_vars

\* C26 witness: after an analyst, a metadata event, an updates object and a
\* text-delta object were read; the two forwarded parts are out and the state is
\* that of the analyst.
C26_Witness ==
    /\ Len(input) = 4
    /\ input[1] = LegacyLine("analyst", AnalystA1)
    /\ input[2] = TransientLine("metadata", MetadataPhase)
    /\ input[3] \in UpstreamLines
    /\ input[4] = Line(JObj(TextDeltaObject))
    /\ state = [researchState EXCEPT !.analysts = <<AnalystOf(AnalystA1)>>]
    /\ [i \in 1..Len(writer) |-> writer[i].type]
          = <<"data-research-state", "data-analysts", "data-metadata", "text-delta">>

\* C28 (the claim as stated): a step that reads the raw token "0:t" writes exactly
\* one text-delta part whose delta is t, with the stream id, and changes no state,
\* for every text t.
C28_TextDeltaIsExact ==
    [][\A t \in Texts :
          ReadOf(Line(raw0(t))) =>
             /\ writer' = Append(writer, TextDelta(t, "research-text"))
             /\ state' = state
      ]_vars

---------------------------------------------------------------------------
(* The worked example of a batch (SpecInterview) *)

\* The batch [analyst A, interview(A, questioning, "Q1")].
ExampleBatch ==
    Line(JArr(<<legacy("analyst", AnalystA1), legacy("interview", InterviewAQ1)>>))

\* C27: when the batch [analyst A, interview(A, questioning, "Q1")] is all that was
\* read, the roster is [A], A's transcript is one message of role user and content
\* "Q1", and the parts written for the batch are, in this order, a data-analysts
\* part without the transient flag, a transient data-interview part and a
\* data-interviews part without the flag.
C27_ExampleBatch ==
    (input = <<ExampleBatch>> /\ pc = "reading") =>
        /\ state.analysts = <<AnalystOf(AnalystA1)>>
        /\ state.interviews = [p \in {"A"} |-> <<InterviewMessage("A", "user", "Q1")>>]
        /\ [i \in 1..(Len(writer) - 1) |-> <<writer[i + 1].type, writer[i + 1].transient>>]
              = << <<"data-analysts", FALSE>>, <<"data-interview", TRUE>>,
                   <<"data-interviews", FALSE>> >>
        /\ writer[2].data.analysts = state.analysts
        /\ writer[4].data.interviews = state.interviews

\* C27 witness: the batch was read and nothing else.
C27_Witness ==
    /\ input = <<ExampleBatch>>
    /\ pc = "reading"
    /\ Len(writer) = 4

---------------------------------------------------------------------------
(* Claims about the raw analyst token (SpecAnalyst) *)

\* C29: after a step that reads the raw token 2:analyst[<json>], the roster holds
\* exactly one entry of the name of the payload, and the entry has the name, role,
\* affiliation and esgFocus of the payload.
C29_RawAnalystIsExact ==
    [][\A d \in AnalystData :
          ReadOf(RawLine("analyst", d)) =>
             LET at == {i \in 1..Len(state'.analysts) : state'.analysts[i].name = d["name"]}
             IN  /\ Cardinality(at) = 1
                 /\ \A i \in at :
                       /\ state'.analysts[i].role = d["role"]
                       /\ state'.analysts[i].affiliation = d["affiliation"]
                       /\ state'.analysts[i].esgFocus = d["esgFocus"]
      ]_vars

\* C29 witness: the raw token of analyst B was the first line read and the roster
\* holds B as the token gave it.
C29_Witness ==
    /\ input = <<RawLine("analyst", AnalystB1)>>
    /\ state.analysts = <<[name |-> "B", role |-> "R1", affiliation |-> "X",
                           esgFocus |-> "F", esgCategories |-> UNDEF]>>

---------------------------------------------------------------------------
(* Claims about the framing of the lines (SpecFramed) *)

\* What is left of the text received so far after its last newline.
Fragment(chunks) == split(Flatten(chunks))[Len(split(Flatten(chunks)))]

\* The state and the parts that processing the given lines once, in order, leaves
\* when it starts from the given state and parts.
Handed(lines, st, parts) == processLines(lines, Cx(st, parts, FALSE))

\* C30: the outcome of the read loop depends on the text received and not on how it
\* was cut into chunks: while the loop runs, the buffer is the unterminated end of
\* the text, and the state and the parts written are those of handing every
\* newline-terminated line of the text once, in order, to the detector; and a read
\* hands exactly the lines its chunk terminated, the retained fragment included
\* in the first of them, after those handed before.
C30_FramingIgnoresChunking ==
    /\ [](pc = "reading" =>
             /\ buffer = Fragment(input)
             /\ state = Handed(CompleteLines(Flatten(input)), researchState, <<writer[1]>>).state
             /\ writer = Handed(CompleteLines(Flatten(input)), researchState, <<writer[1]>>).writer)
    /\ [][pc = "reading" /\ input' # input =>
             LET before == CompleteLines(Flatten(input))
                 after == CompleteLines(Flatten(input'))
                 fresh == SubSeq(after, Len(before) + 1, Len(after))
             IN  /\ Len(before) <= Len(after)
                 /\ SubSeq(after, 1, Len(before)) = before
                 /\ state' = Handed(fresh, state, writer).state
                 /\ writer' = Handed(fresh, state, writer).writer
                 /\ buffer # <<>> /\ fresh # <<>> =>
                       SubSeq(fresh[1], 1, Len(buffer)) = buffer
      ]_vars

\* C30 witness: the line of analyst A arrived without its newline, the next chunk
\* brought the newline and a whole line of an interview; both lines were handed
\* and nothing is left in the buffer.
C30_Witness ==
    /\ pc = "reading"
    /\ input = << <<DataMarker, JsonText(JArr(<<legacy("analyst", AnalystA1)>>))>>,
                  <<NL>> \o Line(JObj(discrete("interview", InterviewAR2))) >>
    /\ buffer = <<>>
    /\ [i \in 1..Len(writer) |-> writer[i].type]
          = <<"data-research-state", "data-analysts", "data-interviews">>

---------------------------------------------------------------------------
(* Claims about a name repeated inside one batch (SpecAnalyst) *)

\* The data-analysts parts among the parts a step appended.
NewAnalystParts == {i \in (Len(writer) + 1)..Len(writer') : writer'[i].type = "data-analysts"}

\* C31 (the claim as stated): a batch of two Analyst elements of one name upserts
\* the name once: one data-analysts part at most is written, and a name that was
\* not in the roster is stored with the fields of the first element.
C31_SeenInBatchIsSkipped ==
    [][\A d, e \in AnalystData :
          (d["name"] = e["name"]
             /\ ReadOf(Line(JArr(<<legacy("analyst", d), legacy("analyst", e)>>))))
          => /\ Cardinality(NewAnalystParts) <= 1
             /\ findIndex(state.analysts, d["name"]) < 1
                   => state'.analysts = Append(state.analysts, AnalystOf(d))
      ]_vars

---------------------------------------------------------------------------
(* Claims about the Progress events (SpecProgress) *)

\* The value a Progress event carrying payload d leaves in a field of progress,
\* if it overwrites the field when d has it and keeps it when d has not.
Overwritten(d, f, previous) == IF f \in DOMAIN d THEN d[f] ELSE previous

\* C32 (the claim as stated): a Progress event overwrites the fields of progress
\* that its payload has, whatever their value, keeps those it has not, and changes
\* the phase only if it has one.
C32_PresentFieldsOverwrite ==
    [][\A d \in {ProgressIn(ResearchPhase[i]) : i \in 1..Len(ResearchPhase)}
                \cup ProgressPartial :
          \A c \in ProgressLines(d) :
             ReadOf(c) =>
                /\ \A f \in {"current", "total", "message"} :
                      state'.progress[f] = Overwritten(d, f, state.progress[f])
                /\ state'.phase = Overwritten(d, "phase", state.phase)
      ]_vars

\* C33: a Progress event that supplies a phase of the declared set sets the phase
\* to that value, wherever the value stands in the declared order relative to the
\* phase before (earlier, the same, the next, further on).
C33_AnyPhaseIsRecorded ==
    [][\A i \in 1..Len(ResearchPhase) :
          \A c \in ProgressLines(ProgressIn(ResearchPhase[i])) :
             ReadOf(c) => state'.phase = ResearchPhase[i]
      ]_vars

\* C33 witness: the phase was report, then a Progress event declared research_brief
\* (earlier in the order), then one declared completed (skipping phases), then one
\* declared analysts; the phase is analysts.
C33_Witness ==
    /\ Len(input) = 4
    /\ input[1] \in ProgressLines(ProgressIn("report"))
    /\ input[2] = DiscreteLine("progress", ProgressIn("research_brief"))
    /\ input[3] = Line(JArr(<<legacyProgress(ProgressIn("completed"))>>))
    /\ input[4] \in ProgressLines(ProgressIn("analysts"))
    /\ state.phase = "analysts"

---------------------------------------------------------------------------
(* Claims about the role of a message (SpecRole) *)

\* The transcript of analyst A in a state (empty when there is none).
TranscriptA(st) == IF "A" \in DOMAIN st.interviews THEN st.interviews["A"] ELSE <<>>

\* The role of the claim: the one the metadata gives, else user for questioning
\* and assistant for every other status.
RoleExpected(status, role) ==
    IF role # UNDEF THEN role ELSE IF status = "questioning" THEN "user" ELSE "assistant"

\* C34: whenever an Interview event, in the legacy or the discrete shape, appends
\* a message to a transcript, it appends one message and the role of the message
\* is the one its metadata gives, else user if the status is questioning and
\* assistant for every other status.
C34_RoleFromMetadataElseStatus ==
    [][\A s \in InterviewStatus : \A role \in {UNDEF, "user", "assistant"} :
          \A c \in RoleLines(InterviewIn(s), role) :
             (ReadOf(c) /\ TranscriptA(state') # TranscriptA(state))
             => /\ Len(TranscriptA(state')) = Len(TranscriptA(state)) + 1
                /\ SubSeq(TranscriptA(state'), 1, Len(TranscriptA(state))) = TranscriptA(state)
                /\ TranscriptA(state')[Len(TranscriptA(state'))]
                      = InterviewMessage("A", RoleExpected(s, role), s)
      ]_vars

\* C34 witness: a legacy questioning event whose metadata says assistant, a
\* discrete answering event whose metadata says user, a discrete event of status
\* started and a legacy questioning event without metadata were read; the
\* transcript has the four messages with the roles assistant, user, assistant, user.
C34_Witness ==
    /\ input = <<RoleLegacyLine(InterviewIn("questioning"), "assistant"),
                 RoleDiscreteLine(InterviewIn("answering"), "user"),
                 RoleDiscreteLine(InterviewIn("started"), UNDEF),
                 RoleLegacyLine(InterviewIn("questioning"), UNDEF)>>
    /\ [i \in 1..Len(TranscriptA(state)) |-> TranscriptA(state)[i].role]
          = <<"assistant", "user", "assistant", "user">>

---------------------------------------------------------------------------
(* Claims about the lines without the prefix (SpecSection) *)

\* C35 (the claim as stated): a line that is a bare JSON value changes the state
\* and writes the parts that the same value after the 'data: ' prefix would.
C35_BareLineIsProcessed ==
    [][\A v \in BareValues :
          ReadOf(BareLine(v))
          => /\ state' = Handed(<< <<DataMarker, JsonText(v)>> >>, state, writer).state
             /\ writer' = Handed(<< <<DataMarker, JsonText(v)>> >>, state, writer).writer
      ]_vars

---------------------------------------------------------------------------
(* Claims about the stall watchdog (SpecWatched) *)

\* C36: a stall changes nothing but the log. The 30 seconds passing leave the state,
\* the parts, the buffer and the loop as they are; a turn of the loop in which the
\* stall check warns leaves the loop reading, and its state and parts are those of
\* processing the lines of its chunk; and no run of a stream that stalled has
\* failed unless reading failed.
C36_StallOnlyLogs ==
    /\ [][(stalled' /\ ~stalled) =>
             /\ state' = state /\ writer' = writer /\ buffer' = buffer
             /\ pc' = pc /\ input' = input /\ warnings' = warnings
       ]_vars
    /\ [][warnings' # warnings =>
             /\ pc = "reading" /\ pc' = "reading"
             /\ warnings' = warnings + 1
             /\ Len(input') = Len(input) + 1
             /\ state' = Handed(CompleteLines(buffer \o input'[Len(input')]),
                                state, writer).state
             /\ writer' = Handed(CompleteLines(buffer \o input'[Len(input')]),
                                 state, writer).writer
       ]_vars
    /\ []((pc = "failed" /\ input # <<>>) => writer[Len(writer)] = ErrorPart("read failed"))

\* C36 witness: the stream stalled, a line without the prefix arrived and the stall
\* check warned; then a Section event of B arrived, was processed, and the run
\* ended normally with B's section in the snapshot.
C36_Witness ==
    /\ pc = "done"
    /\ warnings = 1
    /\ Len(input) = 2
    /\ input[1] \in {BareLine(v) : v \in BareValues}
    /\ input[2] = LegacyLine("section", SectionB1)
    /\ ~stalled
    /\ writer[Len(writer)].data.sections = [q \in {"B"} |-> "T1"]

---------------------------------------------------------------------------
(* Claims about a failing element of a batch (SpecAnalyst) *)

\* C37 (the claim as stated): when a batch holds an element whose reconciling
\* fails (an interview element without data) and, after it, an Analyst element,
\* the analyst is in the roster after the batch and a data-analysts part was
\* written for it.
C37_FailingElementIsIsolated ==
    [][\A d \in AnalystData :
          ReadOf(Line(JArr(<<NoDataItem, legacy("analyst", d)>>)))
          => /\ d["name"] \in processedAnalystNames(state')
             /\ (d["name"] \notin processedAnalystNames(state)
                   => NewAnalystParts # {})
      ]_vars

---------------------------------------------------------------------------
(* Claims about the end of the stream (SpecFramed) *)

\* C38 (the claim as stated): when the stream ends with a line in the buffer that
\* no newline terminated, the line is processed first: the parts written are those
\* of the line and then the snapshot of the state the line left.
C38_LastLineIsFlushed ==
    [][(pc = "reading" /\ pc' = "done" /\ Trim(buffer) # <<>>) =>
          LET cx == Handed(<<buffer>>, state, writer)
          IN  writer' = Append(cx.writer, CompletePart(cx.state))
      ]_vars

---------------------------------------------------------------------------
(* Claims about the consumer of the persistent updates (SpecAnalyst) *)

\* What a consumer of the persistent parts of a type holds in a field before the
\* snapshot arrives: the field of the last of these parts, or the empty value.
LastPersistent(type, field, empty) ==
    LET at == {i \in 1..(Len(writer) - 1) : writer[i].type = type /\ ~writer[i].transient}
    IN  IF at = {} THEN empty
        ELSE writer[CHOOSE i \in at : \A j \in at : j <= i].data[field]

\* C39 (the claim as stated): at normal termination the analysts, interviews and
\* sections of the snapshot are those of the last data-analysts, data-interviews
\* and data-sections parts written before it (empty when there was none).
C39_SnapshotAddsNothing ==
    pc = "done" =>
        LET snapshot == writer[Len(writer)].data
        IN  /\ snapshot.analysts = LastPersistent("data-analysts", "analysts", <<>>)
            /\ snapshot.interviews = LastPersistent("data-interviews", "interviews", EmptyObj)
            /\ snapshot.sections = LastPersistent("data-sections", "sections", EmptyObj)

---------------------------------------------------------------------------
(* Claims about the transcripts of several participants (SpecInterview) *)

\* C40: a step that reads an Interview event of participant P, in any shape,
\* changes nothing of the session state but interviews[P]; and it appends the
\* message to P's transcript unless P's own last message has that content,
\* whatever the last messages of the other participants are.
C40_OnlyOwnTranscript ==
    [][\A d \in InterviewData :
          LET p == d["analystName"]
              own == IF p \in DOMAIN state.interviews THEN state.interviews[p] ELSE <<>>
          IN  (input' # input /\ input'[Len(input')] \in InterviewLines(d)) =>
                 /\ state' = [state EXCEPT !.interviews = state'.interviews]
                 /\ DOMAIN state'.interviews = DOMAIN state.interviews \cup {p}
                 /\ \A q \in DOMAIN state.interviews \ {p} :
                       state'.interviews[q] = state.interviews[q]
                 /\ ("messagePreview" \in DOMAIN d
                       /\ (own = <<>> \/ own[Len(own)].content # d["messagePreview"]))
                    => state'.interviews[p]
                          = Append(own, InterviewMessage(p, roleOf(EmptyObj, d["status"]),
                                                         d["messagePreview"]))
      ]_vars

\* C40 witness: Q1 of A, then Q1 of B, then R2 of A: B's transcript holds Q1
\* although A's last message was Q1 when it came, and A's holds Q1 and R2.
C40_Witness ==
    /\ input = <<LegacyLine("interview", InterviewAQ1),
                 DiscreteLine("interview", InterviewBQ1),
                 RawLine("interview", InterviewAR2)>>
    /\ state.interviews
          = [q \in {"A", "B"} |->
                IF q = "A" THEN <<InterviewMessage("A", "user", "Q1"),
                                  InterviewMessage("A", "assistant", "R2")>>
                ELSE <<InterviewMessage("B", "user", "Q1")>>]

=============================================================================
